---- MODULE Spec2Model ----
(***************************************************************************)
(* World Cup Host Feasibility explorer (app.py): a Streamlit script that   *)
(* is re-executed top to bottom on every user interaction.  The model      *)
(* follows one session: the session state (selected_country), the position *)
(* of the running script, the widget values the run reads, the process-    *)
(* wide st.cache_data cache of fetch_flag_png_iso2, the requests sent to   *)
(* the flag CDN, and the elements the run has emitted.                     *)
(*                                                                         *)
(* Text is a sequence of one-character strings, so that strip(), lower()   *)
(* and the format specs are computed and not assumed.  A JSON value is a   *)
(* tagged record: absent key, null, str, or num.  A number is               *)
(* (-1)^neg * m * 10^e with m a natural number, so that 1e12 is            *)
(* representable without leaving TLC's integers.  The em dash of the       *)
(* source is the single character "EmDash".                                *)
(***************************************************************************)
EXTENDS Integers, Sequences, FiniteSets, TLC

\* ------------------------------------------------------------------ bounds
\* Largest decimal exponent of the money amounts drawn as inputs.
MaxExp == 13
\* Largest number of rows of the GDP series table drawn as input.
MaxRows == 3

\* ------------------------------------------------------------- JSON values
Absent == [t |-> "absent"]
Null == [t |-> "null"]
Str(s) == [t |-> "str", s |-> s]
Num(neg, m, e) == [t |-> "num", neg |-> neg, m |-> m, e |-> e]
Bytes(b) == [t |-> "bytes", b |-> b]

\* dict.get(key): the value, or None when the key is absent.
Get(v) == IF v = Absent THEN Null ELSE v
\* dict.get(key, default)
GetDefault(v, default) == IF v = Absent THEN default ELSE v

\* Python truthiness of None, str and bytes.
Truthy(v) ==
    CASE v.t = "str" -> v.s # <<>>
      [] v.t = "bytes" -> v.b # <<>>
      [] OTHER -> FALSE

\* a or b
Or(a, b) == IF Truthy(a) THEN a ELSE b

\* --------------------------------------------------------------- str methods
LowerCh(ch) ==
    CASE ch = "U" -> "u"
      [] ch = "S" -> "s"
      [] ch = "A" -> "a"
      [] ch = "J" -> "j"
      [] ch = "P" -> "p"
      [] OTHER -> ch

lower(s) == [i \in 1..Len(s) |-> LowerCh(s[i])]

IsSpace(ch) == ch = " "

RECURSIVE lstrip(_)
lstrip(s) == IF s # <<>> /\ IsSpace(Head(s)) THEN lstrip(Tail(s)) ELSE s

RECURSIVE rstrip(_)
rstrip(s) ==
    IF s # <<>> /\ IsSpace(s[Len(s)]) THEN rstrip(SubSeq(s, 1, Len(s) - 1)) ELSE s

strip(s) == rstrip(lstrip(s))

\* ------------------------------------------------------------ number format
RECURSIVE Pow10(_)
Pow10(k) == IF k <= 0 THEN 1 ELSE 10 * Pow10(k - 1)

Digit(d) == <<"0", "1", "2", "3", "4", "5", "6", "7", "8", "9">>[d + 1]

\* The decimal digits of a natural number.
RECURSIVE Digits(_)
Digits(n) == IF n < 10 THEN <<Digit(n)>> ELSE Digits(n \div 10) \o <<Digit(n % 10)>>

\* The digits with a "," before every group of three (format option ",").
RECURSIVE Grouped(_)
Grouped(ds) ==
    IF Len(ds) <= 3 THEN ds
    ELSE Grouped(SubSeq(ds, 1, Len(ds) - 3)) \o <<",">> \o SubSeq(ds, Len(ds) - 2, Len(ds))

\* n / d rounded to the nearest integer, ties to even (float formatting rounds
\* the exact value; the inputs drawn below have no ties, whose outcome would
\* depend on the binary representation).
RoundDiv(n, d) ==
    LET q == n \div d
        r == n % d
    IN  IF 2 * r > d \/ (2 * r = d /\ q % 2 = 1) THEN q + 1 ELSE q

\* |x| * 10^k rounded to an integer, for x = m * 10^e.
Scaled(x, k) ==
    IF x.e + k >= 0 THEN x.m * Pow10(x.e + k) ELSE RoundDiv(x.m, Pow10(-(x.e + k)))

\* abs(x) >= 10^k, decided on the digits (m < 10^9).
AbsGE(x, k) ==
    IF x.m = 0 THEN FALSE
    ELSE IF k - x.e <= 0 THEN TRUE
    ELSE IF k - x.e > 9 THEN FALSE
    ELSE x.m >= Pow10(k - x.e)

Sign(x) == IF x.neg THEN <<"-">> ELSE <<>>

\* f"{x:.2f}", f"{x:.1f}", f"{x:.0f}": fixed notation with d decimals.
Fixed(x, d) ==
    LET n == Scaled(x, d)
        ip == Digits(n \div Pow10(d))
        fr == Digits(Pow10(d) + (n % Pow10(d)))
    IN  Sign(x) \o ip \o (IF d = 0 THEN <<>> ELSE <<".">> \o Tail(fr))

\* f"{x:,.0f}" and f"{n:,}"
FixedGrouped(x) == Sign(x) \o Grouped(Digits(Scaled(x, 0)))

\* x / 10^k
Div10(x, k) == Num(x.neg, x.m, x.e - k)

EmDash == <<"EmDash">>

\* abs(x) as fmt_money takes it; the mutant compares x itself.
absNone(x) == Num(FALSE, IF x.neg THEN 0 ELSE x.m, x.e)

abs(x) == Num(FALSE, x.m, x.e)

fmt_money(x) ==
    IF x = Null THEN EmDash
    ELSE LET absx == abs(x)
         IN  IF AbsGE(absx, 12) THEN <<"$">> \o Fixed(Div10(x, 12), 2) \o <<"T">>
             ELSE IF AbsGE(absx, 9) THEN <<"$">> \o Fixed(Div10(x, 9), 2) \o <<"B">>
             ELSE IF AbsGE(absx, 6) THEN <<"$">> \o Fixed(Div10(x, 6), 2) \o <<"M">>
             ELSE <<"$">> \o FixedGrouped(x)

fmt_pct(x) == IF x = Null THEN EmDash ELSE Fixed(x, 1) \o <<"%">>

\* ------------------------------------------------------------- program data
NoneName == "None"
Sentinel == "Select your country..."

\* One record of countries_mock.json.  name, capital, population, gdp_usd and
\* gdp_per_capita_usd are subscripted by the code (required); the others are
\* read with .get (optional).
Country(name, capital, population, gdp, gdppc) ==
    [name |-> name, capital |-> capital, population |-> population, gdp_usd |-> gdp,
     gdp_per_capita_usd |-> gdppc, flag_code |-> Absent, iso2 |-> Absent,
     wc_gdp_lift_pct |-> Absent, wc_host_cost_usd |-> Absent,
     wc_net_impact_usd |-> Absent, feasibility_score |-> Absent]

Brazil == Country("Brazil", "Brasilia", Num(FALSE, 2143, 5), Num(FALSE, 192, 10), Num(FALSE, 8917, 0))
Japan == Country("Japan", "Tokyo", Num(FALSE, 1251, 5), Num(FALSE, 42, 11), Num(FALSE, 33950, 0))
Qatar == Country("Qatar", "Doha", Num(FALSE, 27, 5), Num(FALSE, 2358, 8), Num(FALSE, 87480, 0))

Row(country, year, gdp) == [country |-> country, year |-> year, gdp_usd |-> gdp]

\* country_names = [c["name"] for c in countries]
CountryNames(cs) == [i \in 1..Len(cs) |-> cs[i].name]

\* list.index(x): the first position of x, 0 standing for ValueError.
Index(names, x) ==
    IF \E i \in 1..Len(names) : names[i] = x
    THEN CHOOSE i \in 1..Len(names) : names[i] = x /\ \A j \in 1..(i - 1) : names[j] # x
    ELSE 0

\* ----------------------------------------------------------- flag resolver
NoUrl == <<>>
Url(code) == <<"https://flagcdn.com/w640/">> \o code \o <<".png">>

\* What requests.get can do: a response (status, body), or an exception.
Response(status, content) == [exc |-> "none", status |-> status, content |-> content]
Raises(exc) == [exc |-> exc, status |-> 0, content |-> <<>>]
NetOutcomes ==
    {Response(200, <<"png">>), Response(200, <<>>), Response(404, <<"html">>),
     Raises("ConnectionError"), Raises("Timeout")}

\* The request succeeded as the CDN contract has it: status 200 with an image body.
NetOk(o) == o.exc = "none" /\ o.status = 200 /\ o.content # <<>>

Return(val, url) == [kind |-> "return", val |-> val, url |-> url]
Raise(exc, url) == [kind |-> "raise", val |-> Null, exc |-> exc, url |-> url]

\* Mutants of the try block: the body is not checked; the exception escapes.
TryGetNoBodyCheck(url, o) ==
    IF o.exc # "none" THEN Return(Null, url)
    ELSE IF o.status = 200 THEN Return(Bytes(o.content), url)
    ELSE Return(Null, url)

\* try: r = requests.get(...); 200 and content -> content; else None;
\* except Exception -> None
TryGet(url, o) ==
    IF o.exc # "none" THEN Return(Null, url)
    ELSE IF o.status = 200 /\ o.content # <<>> THEN Return(Bytes(o.content), url)
    ELSE Return(Null, url)

\* The body of fetch_flag_png_iso2, when requests.get would do o.
fetch_flag_png_iso2(iso2, o) ==
    IF ~Truthy(iso2) THEN Return(Null, NoUrl)
    ELSE LET code == lower(strip(iso2.s))
         IN  IF Len(code) # 2 THEN Return(Null, NoUrl)
             ELSE TryGet(Url(code), o)

Miss == [t |-> "miss"]

\* Mutant of the cache: a None result is not stored.
StoreNoNone(c, iso2, r) ==
    IF r.kind = "return" /\ r.val # Null THEN [c EXCEPT ![iso2] = r.val] ELSE c

\* st.cache_data stores the value a call returned under its argument; a call that
\* raised stores nothing.
Store(c, iso2, r) == IF r.kind = "return" THEN [c EXCEPT ![iso2] = r.val] ELSE c

\* @st.cache_data: the stored value when there is one, else the body's result.
Cached(c, iso2, o) ==
    IF c[iso2] # Miss THEN [ret |-> Return(c[iso2], NoUrl), hit |-> TRUE, cache |-> c]
    ELSE LET r == fetch_flag_png_iso2(iso2, o)
         IN  [ret |-> r, hit |-> FALSE, cache |-> Store(c, iso2, r)]

\* ------------------------------------------------------------------- state
VARIABLES
    countries,          \* load_countries(): the records of countries_mock.json
    gdp_df,             \* load_gdp(): the rows of gdp_10y_mock.csv
    selected_country,   \* st.session_state.selected_country
    selected_name,      \* the argument of the running render_dashboard
    pc,                 \* where the running script is; "done" when it has ended
    widgets,            \* what the widgets return in the running script
    out,                \* what the running script has emitted
    last,               \* history: the kind of the last change of selected_country
    cache,              \* st.cache_data of fetch_flag_png_iso2, by argument
    requests,           \* history: the requests sent to the CDN, counted by argument
    failed,             \* history: the URLs of the requests that failed
    flag_call           \* the last call of fetch_flag_png_iso2 in this run

vars ==
    <<countries, gdp_df, selected_country, selected_name, pc, widgets, out, last,
      cache, requests, failed, flag_call>>

data == <<countries, gdp_df>>
network == <<cache, requests, failed, flag_call>>

country_names == CountryNames(countries)

\* The str values a flag_code or iso2 field, or the resolver's argument, takes.
CodeStrings ==
    {<<>>, <<" ">>, <<"U", "S">>, <<"u", "s">>, <<" ", "U", "S">>, <<"U", "S", "A">>,
     <<"J", "P">>}
CodeArgs == {Null} \cup {Str(s) : s \in CodeStrings}

\* A selectbox the user has not touched returns the option at its index.
Untouched == "(index)"
DefaultWidgets == [chosen |-> Sentinel, new_sel |-> Untouched, back |-> FALSE]

NoCaption == [kind |-> "none", url |-> NoUrl]
NoTrend == [warning |-> FALSE, chart |-> <<>>, shown |-> FALSE]
NoCall == [made |-> FALSE]
Blank ==
    [view |-> "none", topbar |-> FALSE, local |-> FALSE, bg |-> "none", logo |-> FALSE,
     caption |-> NoCaption, panes |-> 0, snapshot |-> <<>>, trend |-> NoTrend,
     metrics |-> <<>>, exc |-> "none"]

\* The state of a new session for the data (cs, df): lines 281-286.
Start(cs, df) ==
    /\ countries = cs
    /\ gdp_df = df
    /\ selected_country = NoneName
    /\ selected_name = NoneName
    /\ pc = "router"
    /\ widgets = DefaultWidgets
    /\ out = Blank
    /\ last = "none"
    /\ cache = [a \in CodeArgs |-> Miss]
    /\ requests = [a \in CodeArgs |-> 0]
    /\ failed = {}
    /\ flag_call = NoCall

\* st.rerun(): the run is abandoned and a new one starts at once; what it had
\* emitted is discarded, and the widgets of the new run are new or unchanged.
StRerun ==
    /\ pc' = "router"
    /\ out' = Blank
    /\ widgets' = DefaultWidgets
    /\ flag_call' = NoCall

\* The kind of a change of the session state, kept for the history.
Kind(old, new) ==
    IF new = old THEN last
    ELSE IF old = NoneName THEN "pick"
    ELSE IF new = NoneName THEN "back"
    ELSE "switch"

SetSelected(new) ==
    /\ selected_country' = new
    /\ last' = Kind(selected_country, new)

\* ------------------------------------------------------------------ Router
\* Lines 478-481.
Router ==
    /\ pc = "router"
    /\ IF selected_country = NoneName
       THEN pc' = "landing" /\ selected_name' = selected_name
       ELSE pc' = "topbar" /\ selected_name' = selected_country
    /\ UNCHANGED <<data, selected_country, widgets, out, last, network>>

\* ------------------------------------------------------------ render_landing
\* Mutant: the sentinel is not told from a country.
LandingChoiceNoSentinel(chosen) == [set |-> TRUE, value |-> chosen]

\* Lines 333-335: what the landing view does with the selectbox's value.
LandingChoice(chosen) == [set |-> chosen # Sentinel, value |-> chosen]

\* Lines 288-335.  globe: one of the background files exists; logo: fifa_logo.png
\* exists.
render_landing ==
    /\ pc = "landing"
    /\ LET d == LandingChoice(widgets.chosen)
       IN  IF d.set
           THEN SetSelected(d.value) /\ StRerun
           ELSE /\ \E globe \in BOOLEAN, logo \in BOOLEAN :
                    out' = [out EXCEPT !.view = "landing",
                                       !.bg = IF globe THEN "globe" ELSE "none",
                                       !.logo = logo]
                /\ pc' = "done"
                /\ UNCHANGED <<selected_country, last, widgets, flag_call>>
    /\ UNCHANGED <<data, selected_name, cache, requests, failed>>

\* ---------------------------------------------------------- render_dashboard
\* An uncaught exception ends the run; what was emitted before it stays shown.
Crash(exc) ==
    /\ pc' = "done"
    /\ out' = [out EXCEPT !.view = "dashboard", !.exc = exc]

\* Mutant: the back button changes the state and the run goes on.
TopBarChoiceNoRerun(name, new_sel, back) ==
    IF new_sel # name THEN [set |-> TRUE, value |-> new_sel, rerun |-> TRUE]
    ELSE IF back THEN [set |-> TRUE, value |-> NoneName, rerun |-> FALSE]
    ELSE [set |-> FALSE, value |-> name, rerun |-> FALSE]

\* Mutant: the back button stores an empty name, which the router does not take
\* for "no selection".
TopBarChoiceBackEmpty(name, new_sel, back) ==
    IF new_sel # name THEN [set |-> TRUE, value |-> new_sel, rerun |-> TRUE]
    ELSE IF back THEN [set |-> TRUE, value |-> "", rerun |-> TRUE]
    ELSE [set |-> FALSE, value |-> name, rerun |-> FALSE]

\* Lines 346-352: the switcher is looked at first, then the back button.
TopBarChoice(name, new_sel, back) ==
    IF new_sel # name THEN [set |-> TRUE, value |-> new_sel, rerun |-> TRUE]
    ELSE IF back THEN [set |-> TRUE, value |-> NoneName, rerun |-> TRUE]
    ELSE [set |-> FALSE, value |-> name, rerun |-> FALSE]

\* Lines 339-352.
dashboard_top ==
    /\ pc = "topbar"
    /\ LET idx == Index(country_names, selected_name)
       IN  IF idx = 0
           THEN Crash("ValueError") /\ UNCHANGED <<selected_country, last, widgets, flag_call>>
           ELSE LET new_sel == IF widgets.new_sel = Untouched THEN country_names[idx]
                               ELSE widgets.new_sel
                    d == TopBarChoice(selected_name, new_sel, widgets.back)
                IN  /\ IF d.set THEN SetSelected(d.value)
                       ELSE UNCHANGED <<selected_country, last>>
                    /\ IF d.rerun THEN StRerun
                       ELSE /\ pc' = "background"
                            /\ out' = [out EXCEPT !.view = "dashboard", !.topbar = TRUE]
                            /\ UNCHANGED <<widgets, flag_call>>
    /\ UNCHANGED <<data, selected_name, cache, requests, failed>>

\* Line 360: country.get("flag_code") or country.get("iso2")
FlagCode(country) == Or(Get(country.flag_code), Get(country.iso2))

\* Mutant: the CDN is asked although the local asset exists.
BackgroundPlanFetchFirst(flag_code, local) ==
    IF Truthy(flag_code) THEN "resolver" ELSE "nocode"

\* Lines 361-374: which of the three branches is taken.
BackgroundPlan(flag_code, local) ==
    IF Truthy(flag_code) THEN (IF local THEN "local" ELSE "resolver") ELSE "nocode"

\* Line 372: the URL the caption names.
CaptionUrl(flag_code) == Url(lower(flag_code.s))

\* A call of the decorated fetch_flag_png_iso2 whose result is c: the cache and
\* the history of requests after it.
Call(iso2, o, c) ==
    LET sent == c.ret.url # NoUrl
    IN  /\ cache' = c.cache
        /\ requests' = IF sent THEN [requests EXCEPT ![iso2] = @ + 1] ELSE requests
        /\ failed' = IF sent /\ ~NetOk(o) THEN failed \cup {c.ret.url} ELSE failed
        /\ flag_call' = [made |-> TRUE, iso2 |-> iso2, hit |-> c.hit, ret |-> c.ret,
                         sent |-> sent, o |-> IF sent THEN o ELSE Raises("none")]

\* Lines 354-374.  local: assets/flags/{flag_code}.png exists; o: what
\* requests.get does if it is called.
dashboard_background ==
    /\ pc = "background"
    /\ LET i == Index(country_names, selected_name)
       IN  IF i = 0
           THEN Crash("StopIteration") /\ UNCHANGED network
           ELSE \E local \in BOOLEAN, o \in NetOutcomes :
                    LET flag_code == FlagCode(countries[i])
                        plan == BackgroundPlan(flag_code, local)
                        c == Cached(cache, flag_code, o)
                    IN  CASE plan = "local" ->
                                /\ out' = [out EXCEPT !.bg = "local", !.local = TRUE]
                                /\ pc' = "left"
                                /\ UNCHANGED network
                          [] plan = "nocode" ->
                                /\ out' = [out EXCEPT !.caption = [kind |-> "nocode", url |-> NoUrl]]
                                /\ pc' = "left"
                                /\ UNCHANGED network
                          [] OTHER ->
                                /\ Call(flag_code, o, c)
                                /\ IF c.ret.kind = "raise"
                                   THEN /\ pc' = "done"
                                        /\ out' = [out EXCEPT !.local = local, !.exc = c.ret.exc]
                                   ELSE /\ pc' = "left"
                                        /\ out' = IF Truthy(c.ret.val)
                                                  THEN [out EXCEPT !.local = local, !.bg = "bytes"]
                                                  ELSE [out EXCEPT !.local = local,
                                                                   !.caption = [kind |-> "fetchfail",
                                                                                url |-> CaptionUrl(flag_code)]]
    /\ UNCHANGED <<data, selected_country, selected_name, widgets, last>>

\* gdp_df[gdp_df["country"] == selected_name]
SelectRows(df, name) == SelectSeq(df, LAMBDA r : r.country = name)

\* Mutant: the rows are charted in the order of the file.
sort_valuesUnsorted(rows) == {rows}

\* .sort_values("year"): the rows by year ascending.  The default sort is not
\* stable, so rows of the same year may come in any order.
sort_values(rows) ==
    {[i \in 1..Len(rows) |-> rows[f[i]]] : f \in
        {g \in Permutations(1..Len(rows)) :
            \A i, j \in 1..Len(rows) : i < j => rows[g[i]].year <= rows[g[j]].year}}

\* Lines 434-455.
dashboard_left ==
    /\ pc = "left"
    /\ LET country == countries[Index(country_names, selected_name)]
           rows == SelectRows(gdp_df, selected_name)
       IN  \E series \in sort_values(rows) :
               out' = [out EXCEPT
                         !.panes = 1,
                         !.snapshot = <<FixedGrouped(country.population), country.capital,
                                        fmt_money(country.gdp_usd),
                                        fmt_money(country.gdp_per_capita_usd)>>,
                         !.trend = IF series = <<>>
                                   THEN [warning |-> TRUE, chart |-> <<>>, shown |-> FALSE]
                                   ELSE [warning |-> FALSE, chart |-> series, shown |-> TRUE]]
    /\ pc' = "right"
    /\ UNCHANGED <<data, selected_country, selected_name, widgets, last, network>>

Of100 == <<" ", "/", " ", "1", "0", "0">>

\* Lines 463-466: the four st.metric values, or the exception the formatting raises.
HeadlineMetrics(country) ==
    LET score == GetDefault(country.feasibility_score, Num(FALSE, 0, 0))
    IN  IF score.t # "num" THEN [exc |-> "TypeError", values |-> <<>>]
        ELSE [exc |-> "none",
              values |-> <<fmt_pct(Get(country.wc_gdp_lift_pct)),
                           fmt_money(Get(country.wc_host_cost_usd)),
                           fmt_money(Get(country.wc_net_impact_usd)),
                           Fixed(score, 0) \o Of100>>]

\* Lines 457-474.
dashboard_right ==
    /\ pc = "right"
    /\ LET m == HeadlineMetrics(countries[Index(country_names, selected_name)])
       IN  out' = IF m.exc # "none" THEN [out EXCEPT !.exc = m.exc]
                  ELSE [out EXCEPT !.panes = 2, !.metrics = m.values]
    /\ pc' = "done"
    /\ UNCHANGED <<data, selected_country, selected_name, widgets, last, network>>

\* ------------------------------------------------------------- the user
\* The run has ended and the page is shown; an interaction starts the next run
\* with the widget's new value.
NewRun(w) ==
    /\ pc = "done"
    /\ pc' = "router"
    /\ widgets' = w
    /\ out' = Blank
    /\ flag_call' = NoCall
    /\ UNCHANGED <<data, selected_country, selected_name, last, cache, requests, failed>>

\* The landing selectbox (lines 325-330): another option than the one shown.
SelectOnLanding ==
    /\ out.view = "landing"
    /\ \E o \in {country_names[i] : i \in 1..Len(country_names)} :
           NewRun([DefaultWidgets EXCEPT !.chosen = o])

\* The switcher (line 345): another country than the one shown.
SelectInSwitcher ==
    /\ out.topbar
    /\ \E n \in {country_names[i] : i \in 1..Len(country_names)} \ {selected_name} :
           NewRun([DefaultWidgets EXCEPT !.new_sel = n])

\* The button (line 350) returns True in the run its click starts.
ClickBack ==
    /\ out.topbar
    /\ NewRun([DefaultWidgets EXCEPT !.back = TRUE])

\* A run no widget started (the Rerun command): every widget keeps its value.
RerunRequest ==
    /\ out.view # "none"
    /\ NewRun(DefaultWidgets)

Next ==
    \/ Router
    \/ render_landing
    \/ dashboard_top
    \/ dashboard_background
    \/ dashboard_left
    \/ dashboard_right
    \/ SelectOnLanding
    \/ SelectInSwitcher
    \/ ClickBack
    \/ RerunRequest

\* ------------------------------------------------------------ input data
BaseGdp ==
    <<Row("Brazil", 2015, Num(FALSE, 18, 11)), Row("Japan", 2014, Num(FALSE, 49, 11)),
      Row("Brazil", 2014, Num(FALSE, 25, 11))>>

\* The (flag_code, iso2) pairs drawn for a country.
CodeFields ==
    {<<Absent, Absent>>, <<Absent, Str(<<"U", "S">>)>>, <<Str(<<"J", "P">>), Str(<<"U", "S">>)>>,
     <<Str(<<>>), Str(<<"u", "s">>)>>, <<Null, Str(<<" ", "U", "S">>)>>,
     <<Str(<<"U", "S", "A">>), Absent>>, <<Str(<<" ">>), Null>>, <<Null, Str(<<>>)>>}

WithCodes(c, p) == [c EXCEPT !.flag_code = p[1], !.iso2 = p[2]]

\* Sessions over country lists that differ in their flag codes.
Init ==
    \E p1, p2 \in CodeFields :
        Start(<<WithCodes(Brazil, p1), WithCodes(Japan, p2), Qatar>>, BaseGdp)

Spec == Init /\ [][Next]_vars

\* Sessions over GDP tables of up to MaxRows rows; Japan has no row in any.
GdpRows ==
    {Row(c, y, g) : c \in {"Brazil", "Chile"}, y \in {2014, 2015},
                    g \in {Num(FALSE, 18, 11), Num(FALSE, 25, 11)}}

RECURSIVE Tables(_)
Tables(n) ==
    IF n = 0 THEN {<<>>}
    ELSE Tables(n - 1) \cup {Append(t, r) : t \in {u \in Tables(n - 1) : Len(u) = n - 1}, r \in GdpRows}

InitGdp == \E df \in Tables(MaxRows) : Start(<<Brazil, Japan>>, df)

SpecGdp == InitGdp /\ [][Next]_vars

\* Sessions over a country whose optional headline fields are each absent, null
\* or a number.
Optional(v) == {Absent, Null, v}

InitMetrics ==
    \E lift \in Optional(Num(FALSE, 3456, -3)), cost \in Optional(Num(FALSE, 23, 8)),
       net \in Optional(Num(TRUE, 15, 8)), score \in Optional(Num(FALSE, 724, -1)) :
        Start(<<[Brazil EXCEPT !.wc_gdp_lift_pct = lift, !.wc_host_cost_usd = cost,
                               !.wc_net_impact_usd = net, !.feasibility_score = score],
                Japan>>, BaseGdp)

SpecMetrics == InitMetrics /\ [][Next]_vars

\* Sessions over a country whose net impact is any of the amounts
\* +-m * 10^e, 0 or null.
Mantissas == {1, 15, 23, 41, 999, 8917}
MoneyInputs ==
    {Null, Num(FALSE, 0, 0)} \cup
    {Num(neg, m, e) : neg \in BOOLEAN, m \in Mantissas, e \in 0..MaxExp}

InitFmt ==
    \E x \in MoneyInputs :
        Start(<<[Brazil EXCEPT !.wc_net_impact_usd = x], Japan>>, BaseGdp)

SpecFmt == InitFmt /\ [][Next]_vars

\* The resolver called on its own, with any argument and any network outcome.
CallFetchFlag ==
    /\ \E iso2 \in CodeArgs, o \in NetOutcomes : Call(iso2, o, Cached(cache, iso2, o))
    /\ UNCHANGED <<data, selected_country, selected_name, pc, widgets, out, last>>

NextFlag == CallFetchFlag

InitFlag == Start(<<Brazil>>, <<>>)

SpecFlag == InitFlag /\ [][NextFlag]_vars

\* ------------------------------------------------------------------ claims
InList(name) == \E i \in 1..Len(countries) : countries[i].name = name

\* The record of the country the running dashboard is for.
Shown == countries[CHOOSE i \in 1..Len(countries) : countries[i].name = selected_name]

\* The dashboard run has passed its background step / its left pane.
BackgroundDone == pc = "left" \/ out.panes >= 1
LeftDone == out.panes >= 1

\* C1.  The selected country starts as none and changes only by: a real country
\* picked on the landing view; a different country picked in the switcher of
\* the dashboard; back clicked on the dashboard.  A run in which no widget
\* reports a user action leaves it unchanged.
C1_Step ==
    /\ selected_country' # selected_country =>
          \/ /\ selected_country = NoneName
             /\ pc = "landing"
             /\ widgets.chosen = selected_country'
             /\ selected_country' # Sentinel
             /\ InList(selected_country')
          \/ /\ selected_country # NoneName
             /\ pc = "topbar"
             /\ widgets.new_sel = selected_country'
             /\ InList(selected_country')
          \/ /\ selected_country # NoneName
             /\ pc = "topbar"
             /\ widgets.back
             /\ selected_country' = NoneName
    /\ widgets = DefaultWidgets => selected_country' = selected_country

C1_OnlyThreeTransitions == selected_country = NoneName /\ [][C1_Step]_vars

\* C1 witness: a country was picked and back was clicked; the landing view is
\* shown again.
C1_Witness ==
    last = "back" /\ selected_country = NoneName /\ pc = "done" /\ out.view = "landing"

\* C2.  A change of the selected country restarts the script at the router with
\* nothing emitted, and a run that ends without an exception has rendered the
\* landing view exactly when nothing is selected, and otherwise both panes of
\* the dashboard of the country that is selected.
C2_Complete ==
    pc = "done" /\ out.exc = "none" =>
        IF selected_country = NoneName THEN out.view = "landing"
        ELSE /\ out.view = "dashboard"
             /\ out.panes = 2
             /\ selected_name = selected_country
             /\ InList(selected_country)
             /\ out.snapshot[2] = Shown.capital

C2_Rerender == selected_country' # selected_country => pc' = "router" /\ out' = Blank

C2_ViewReflectsState == []C2_Complete /\ [][C2_Rerender]_vars

\* C2 witness: after a switch, the dashboard of the new country is complete.
C2_Witness ==
    /\ last = "switch"
    /\ pc = "done"
    /\ out.panes = 2
    /\ selected_country = "Qatar"
    /\ out.snapshot[2] = "Doha"

\* A code of two characters once the blanks around it are dropped.
TwoLetter(a) == a.t = "str" /\ Len(strip(a.s)) = 2

\* C3.  For every argument at most one request is ever sent; the first call for
\* a two-letter code sends exactly one; the result of a call, bytes or null, is
\* stored under its argument and never changes; a call whose argument has a
\* stored result sends nothing and returns that result.
C3_AtMostOne == \A a \in CodeArgs : requests[a] <= 1

C3_Step ==
    /\ \A a \in CodeArgs : cache[a] # Miss => cache'[a] = cache[a]
    /\ ~flag_call.made /\ flag_call'.made =>
          LET a == flag_call'.iso2
          IN  /\ cache'[a] = flag_call'.ret.val
              /\ cache[a] = Miss =>
                    requests' = [requests EXCEPT ![a] = IF TwoLetter(a) THEN 1 ELSE 0]
              /\ requests[a] >= 1 =>
                    /\ requests' = requests
                    /\ flag_call'.hit
                    /\ flag_call'.ret.val = cache[a]

C3_OneRequestPerCode == []C3_AtMostOne /\ [][C3_Step]_vars

\* C3 witness: a later run is served the stored failure of the one request.
C3_Witness ==
    /\ flag_call.made
    /\ flag_call.hit
    /\ flag_call.ret.val = Null
    /\ requests[flag_call.iso2] = 1
    /\ out.caption.kind = "fetchfail"

\* C4.  Every call of the resolver returns (never raises) null or non-empty
\* bytes; a call that sent a request returns bytes exactly when the response
\* has status 200 and a non-empty body, and then that body; a call that neither
\* sent a request nor was served from the cache returns null; what the cache
\* holds is null or non-empty bytes.
NullOrBytes(v) == v = Null \/ (v.t = "bytes" /\ v.b # <<>>)

C4_NullOrBytes ==
    /\ \A a \in CodeArgs : cache[a] # Miss => NullOrBytes(cache[a])
    /\ flag_call.made =>
          /\ flag_call.ret.kind = "return"
          /\ NullOrBytes(flag_call.ret.val)
          /\ flag_call.sent =>
                IF flag_call.o.exc = "none" /\ flag_call.o.status = 200
                   /\ flag_call.o.content # <<>>
                THEN flag_call.ret.val = Bytes(flag_call.o.content)
                ELSE flag_call.ret.val = Null
          /\ ~flag_call.sent /\ ~flag_call.hit => flag_call.ret.val = Null

\* C4 witness: a request answered 200 with an empty body gave null.
C4_Witness ==
    /\ flag_call.made
    /\ flag_call.sent
    /\ flag_call.o = Response(200, <<>>)
    /\ flag_call.ret.val = Null

\* The flag code of a country as the data model has it: flag_code when it is a
\* non-empty string, else iso2 when that is one, else none.
NonEmptyStr(v) == v.t = "str" /\ Len(v.s) > 0
HasCode(c) == NonEmptyStr(c.flag_code) \/ NonEmptyStr(c.iso2)
CodeOf(c) == IF NonEmptyStr(c.flag_code) THEN c.flag_code ELSE c.iso2

\* C5.  Once a dashboard run is past its background step: with a flag code and
\* a local asset, the asset is the background and the resolver was not called;
\* with a flag code and no local asset, the resolver was called with the code
\* and its bytes are the background when it returned some, else there is no
\* background and the fetch-failure caption; with no flag code, no background,
\* no call, and the no-code caption.
C5_BackgroundOrder ==
    BackgroundDone =>
        IF HasCode(Shown)
        THEN IF out.local
             THEN out.bg = "local" /\ ~flag_call.made /\ out.caption.kind = "none"
             ELSE /\ flag_call.made
                  /\ flag_call.iso2 = CodeOf(Shown)
                  /\ IF flag_call.ret.val # Null
                     THEN out.bg = "bytes" /\ out.caption.kind = "none"
                     ELSE out.bg = "none" /\ out.caption.kind = "fetchfail"
        ELSE out.bg = "none" /\ ~flag_call.made /\ out.caption.kind = "nocode"

\* C5 witness: a country with a flag code and a local asset, rendered to the end
\* without a call of the resolver.
C5_Witness ==
    /\ pc = "done"
    /\ out.panes = 2
    /\ HasCode(Shown)
    /\ out.local
    /\ out.bg = "local"
    /\ ~flag_call.made

\* C6.  Whenever the fetch-failure caption is shown, the URL it names is that of
\* a request that was sent for the country's code and failed; and the run goes
\* on to render both panes without a background.
C6_CaptionNamesFailedRequest ==
    out.caption.kind = "fetchfail" =>
        /\ requests[CodeOf(Shown)] >= 1
        /\ out.caption.url \in failed
        /\ out.bg = "none"
        /\ pc = "done" => out.panes = 2

\* C6, the part that holds: after the caption the run renders both panes without
\* a background.
C6_RendersOn ==
    out.caption.kind = "fetchfail" => out.bg = "none" /\ (pc = "done" => out.panes = 2)

\* C7.  Once the left pane is rendered: when no row of the GDP table has the
\* selected name, the warning is shown and no chart; otherwise no warning and a
\* chart that holds each row of that country as often as the table does, no
\* other row, in ascending order of year.  No exception has been raised.
Count(seq, r) == Cardinality({i \in 1..Len(seq) : seq[i] = r})

C7_GdpTrend ==
    LeftDone =>
        LET chart == out.trend.chart
        IN  /\ out.exc = "none"
            /\ IF \A i \in 1..Len(gdp_df) : gdp_df[i].country # selected_name
               THEN out.trend.warning /\ ~out.trend.shown /\ chart = <<>>
               ELSE /\ ~out.trend.warning
                    /\ out.trend.shown
                    /\ \A i \in 1..Len(chart) : chart[i].country = selected_name
                    /\ \A i \in 1..Len(gdp_df) :
                          gdp_df[i].country = selected_name =>
                              Count(chart, gdp_df[i]) = Count(gdp_df, gdp_df[i])
                    /\ \A i, j \in 1..Len(chart) : i < j => chart[i].year <= chart[j].year

\* C7 witness: a chart of rows that the table holds in another order.
C7_Witness ==
    /\ pc = "done"
    /\ out.trend.shown
    /\ Len(out.trend.chart) >= 2
    /\ \E i \in 1..(Len(gdp_df) - 1) :
          /\ gdp_df[i].country = selected_name
          /\ gdp_df[i + 1].country = selected_name
          /\ gdp_df[i].year > gdp_df[i + 1].year

\* C8.  Whichever of the four optional headline fields are absent or null, the
\* right pane raises nothing and shows four values.
C8_MetricsTolerateMissing ==
    /\ out.exc # "TypeError"
    /\ pc = "done" /\ out.view = "dashboard" /\ out.topbar => Len(out.metrics) = 4

\* The unit a rendered amount ends with.
UnitOf(s) == IF s[Len(s)] \in {"T", "B", "M"} THEN s[Len(s)] ELSE "plain"

\* 10^k <= m * 10^e, on the number of digits (m >= 1, e >= 0).
AtLeast(x, k) == x.m >= 1 /\ Len(Digits(x.m)) + x.e >= k + 1

UnitFor(big) ==
    IF big[12] THEN "T" ELSE IF big[9] THEN "B" ELSE IF big[6] THEN "M" ELSE "plain"

\* The thresholds taken on the absolute value, and on the value itself.
UnitByMagnitude(x) == UnitFor([k \in {6, 9, 12} |-> AtLeast(x, k)])
UnitByValue(x) == UnitFor([k \in {6, 9, 12} |-> ~x.neg /\ AtLeast(x, k)])

WellFormedMoney(x, s, unit) ==
    IF x = Null THEN s = EmDash
    ELSE /\ s[1] = "$"
         /\ UnitOf(s) = unit
         /\ IF unit = "plain"
            THEN \A i \in 1..Len(s) : s[i] # "."
            ELSE s[Len(s) - 3] = "."

\* The net impact of the country shown, as the right pane reads it.
NetImpact == Get(Shown.wc_net_impact_usd)

MetricsShown == pc = "done" /\ out.panes = 2

C10_SelectedInList ==
    /\ selected_country = NoneName \/ InList(selected_country)
    /\ out.exc \notin {"ValueError", "StopIteration"}

\* C10 witness: the dashboard found the record of the third country of the list.
C10_Witness ==
    /\ selected_country = countries[Len(countries)].name
    /\ pc = "left"
    /\ out.topbar
    /\ out.exc = "none"

====
